---- MODULE Spec2Model ----
(***************************************************************************)
(* A model of tools/NeMo/quartznet.py: the QuartzNet training script.      *)
(* main() is a straight-line program; each action below is one step of it  *)
(* (or one step of create_all_dags, which main calls), and pc is the       *)
(* position of the interpreter.  An uncaught exception ends the run by     *)
(* setting `raised`.                                                       *)
(*                                                                         *)
(* Optional values (Python None) are sequences of length 0 or 1: None is   *)
(* <<>> and the value v is <<v>>.  Python dicts are functions whose domain *)
(* is the set of keys.  File paths are sequences of one-character strings. *)
(***************************************************************************)
EXTENDS Integers, Sequences, FiniteSets, TLC

VARIABLES
    argv,             \* the command line: which flags were supplied, and their values
    config_file,      \* the YAML document stored in the model_config file
    env,              \* what the framework reports: world size, dataset length, checkpoint dir
    pc,               \* position in main / create_all_dags
    raised,           \* the uncaught exception that ended the run, None if none
    trace,            \* the externally visible steps of main, in order
    args,             \* the argparse namespace (main's and create_all_dags' `args`)
    neural_factory,   \* the NeuralModuleFactory instance
    quartz_params,    \* create_all_dags: the loaded config (nested dicts are heap references)
    heap,             \* the mutable dict objects: the loaded data-layer section and its copies
    dl_params,        \* create_all_dags: the objects train_dl_params and eval_dl_params name
    modules,          \* the neural modules constructed so far, by variable name
    data_layers_eval, \* create_all_dags: the list of evaluation data layers
    steps_per_epoch,  \* create_all_dags: line 113
    dags,             \* the edges of the train graph (index 0) and the eval graphs (index i)
    loop_i,           \* the index of the eval-DAG loop of lines 212-231
    callbacks,        \* create_all_dags: the callback list being built
    returned,         \* main: (train_loss, callbacks, steps_per_epoch), None before the return
    lr_policy,        \* main: the learning-rate policy object
    train_calls       \* the invocations of neural_factory.train, with their arguments

vars == <<argv, config_file, env, pc, raised, trace, args, neural_factory, quartz_params,
          heap, dl_params, modules, data_layers_eval, steps_per_epoch, dags, loop_i, callbacks,
          returned, lr_policy, train_calls>>

(***************************************************************************)
(* Bounds of the model.                                                    *)
(***************************************************************************)
MaxEval == 2      \* at most this many evaluation datasets on the command line
MaxN == 8         \* the training data layer holds 0..MaxN samples
MaxEpochs == 2    \* --num_epochs ranges over 1..MaxEpochs
MaxBatch == 2     \* --batch_size ranges over 1..MaxBatch (or the default)
MaxIter == 2      \* --iter_per_step ranges over 1..MaxIter
MaxWorld == 2     \* the factory's world size ranges over 1..MaxWorld

(***************************************************************************)
(* Python values.                                                          *)
(***************************************************************************)
None == <<>>
Some(v) == <<v>>
Val(o) == o[1]

\* bool(x) for an optional string: None and "" are falsy
TruthyStr(o) == o # None /\ Val(o) # ""

\* bool(x) for an optional list or dict: None, [] and {} are falsy
TruthyList(o) == o # None /\ Len(Val(o)) > 0
TruthyDict(o) == o # None /\ DOMAIN Val(o) # {}

HasKey(d, k) == k \in DOMAIN d

\* A faulty dict.update, for comparison: a key already present keeps its old value
\* (the behaviour of setdefault).
DictUpdateKeepsOld(d, other) ==
    [k \in DOMAIN d \cup DOMAIN other |-> IF k \in DOMAIN d THEN d[k] ELSE other[k]]

\* dict.update(other): the keys of `other` win
DictUpdate(d, other) ==
    [k \in DOMAIN d \cup DOMAIN other |-> IF k \in DOMAIN other THEN other[k] ELSE d[k]]

\* del d[k], for a key that is present
DictDel(d, k) == [x \in DOMAIN d \ {k} |-> d[x]]

\* int(a / b) for a >= 0, b > 0: true division, truncated
IntDiv(a, b) == a \div b

(***************************************************************************)
(* os.path.basename(path).split(".")[0] on paths as character sequences.   *)
(***************************************************************************)
\* os.path.basename: what follows the last "/"
Basename(p) ==
    LET slashes == {i \in 1..Len(p) : p[i] = "/"}
        last == IF slashes = {} THEN 0 ELSE CHOOSE i \in slashes : \A j \in slashes : j <= i
    IN SubSeq(p, last + 1, Len(p))

\* s.split(".")[0]: what precedes the first "."
SplitDotFirst(s) ==
    LET dots == {i \in 1..Len(s) : s[i] = "."}
        first == IF dots = {} THEN Len(s) + 1 ELSE CHOOSE i \in dots : \A j \in dots : i <= j
    IN SubSeq(s, 1, first - 1)

TagName(path) == SplitDotFirst(Basename(path))

(***************************************************************************)
(* The inputs of a run: the command line, the config file, the framework.  *)
(***************************************************************************)
\* parse_args: parser.set_defaults(batch_size=32) and --warmup_steps default=1000
DefaultBatchSize == 32
DefaultWarmupSteps == 1000
\* parser.set_defaults(eval_batch_size=64)
EvalBatchSize == 64

TrainPath == <<"t", ".", "j">>
EvalPaths == { <<"a", ".", "j">>,
               <<"d", ".", "x", "/", "b">>,
               <<"d", "/", "c", ".", "t", ".", "j">> }

\* the lists of at most n evaluation datasets
RECURSIVE PathLists(_)
PathLists(n) ==
    IF n = 0 THEN {<<>>}
    ELSE LET shorter == PathLists(n - 1)
         IN shorter \cup {Append(l, p) : l \in {x \in shorter : Len(x) = n - 1}, p \in EvalPaths}

\* a command line that parse_args accepts, with one evaluation dataset
DefaultArgv ==
    [num_epochs |-> Some(1), max_steps |-> None, model_config |-> Some("model.yaml"),
     wandb_key |-> None, checkpoint_dir |-> None, load_dir |-> None,
     warmup_ratio |-> None, warmup_steps |-> None, batch_size |-> None,
     iter_per_step |-> 1, train_dataset |-> TrainPath,
     eval_datasets |-> Some(<< <<"a", ".", "j">> >>)]

\* keys of the data-layer section that are plain parameters
DLKeys == {"shuffle", "max_duration"}
\* the keys a nested train/eval override may hold
OverrideKeys == DLKeys \cup {"train", "eval"}

\* the values tell where a parameter came from: 0 shared, 1 train override, 2 eval override
Overrides(v) == {None} \cup {Some([k \in D |-> v]) : D \in SUBSET OverrideKeys}

\* the AudioToTextDataLayer section: shared parameters and the nested overrides
DataLayerSection(S, tr, ev) ==
    [k \in S \cup (IF tr = None THEN {} ELSE {"train"}) \cup (IF ev = None THEN {} ELSE {"eval"})
        |-> IF k = "train" THEN Val(tr) ELSE IF k = "eval" THEN Val(ev) ELSE 0]

DataLayerSections ==
    {DataLayerSection(S, tr, ev) : S \in SUBSET DLKeys, tr \in Overrides(1), ev \in Overrides(2)}

DefaultDataLayerSection ==
    DataLayerSection(DLKeys, Some([shuffle |-> 1]), Some([shuffle |-> 2]))

RequiredKeys == {"labels", "sample_rate", "AudioToTextDataLayer",
                 "AudioToMelSpectrogramPreprocessor", "JasperEncoder"}

\* SpectrogramAugmentation: absent (<<>>), or present with a null, empty or non-empty value
AugmentationEntries == {None, Some(None), Some(Some([k \in {} |-> 0])),
                        Some(Some([time_masks |-> 2]))}

\* a config document holding the required keys in `keys`, the data-layer section `dl`
\* and the SpectrogramAugmentation entry `aug`
ConfigDoc(keys, dl, aug) ==
    [k \in keys \cup (IF aug = None THEN {} ELSE {"SpectrogramAugmentation"}) |->
        CASE k = "labels" -> <<"a", "b", "c">>
          [] k = "sample_rate" -> 16000
          [] k = "AudioToTextDataLayer" -> dl
          [] k = "AudioToMelSpectrogramPreprocessor" -> [features |-> 64]
          [] k = "JasperEncoder" -> [jasper |-> << [filters |-> 256], [filters |-> 1024] >>]
          [] k = "SpectrogramAugmentation" -> Val(aug)]

DefaultConfig == ConfigDoc(RequiredKeys, DefaultDataLayerSection, Some(Some([time_masks |-> 2])))

\* what the framework reports: NeuralModuleFactory.world_size and .checkpoint_dir,
\* and len(data_layer_train)
DefaultEnv == [world_size |-> 1, N |-> MaxN, checkpoint_dir |-> None]

InitRun(a, c, e) ==
    /\ argv = a
    /\ config_file = c
    /\ env = e
    /\ pc = "parse_args"
    /\ raised = None
    /\ trace = <<>>
    /\ args = None
    /\ neural_factory = None
    /\ quartz_params = None
    /\ heap = <<>>
    /\ dl_params = [train |-> None, eval |-> None]
    /\ modules = <<>>
    /\ data_layers_eval = None
    /\ steps_per_epoch = None
    /\ dags = <<>>
    /\ loop_i = 0
    /\ callbacks = None
    /\ returned = None
    /\ lr_policy = None
    /\ train_calls = <<>>

\* command lines: which of --num_epochs, --max_steps, --model_config, --wandb_key are given
InitArgs ==
    \E ne \in {None} \cup {Some(n) : n \in 1..MaxEpochs},
       ms \in {None, Some(5)},
       mc \in {None, Some("model.yaml")},
       wk \in {None, Some(""), Some("key")} :
        InitRun([DefaultArgv EXCEPT !.num_epochs = ne, !.max_steps = ms,
                                    !.model_config = mc, !.wandb_key = wk],
                DefaultConfig, DefaultEnv)

\* config files: every shape of the data-layer section, with and without eval datasets
InitMerge ==
    \E dl \in DataLayerSections, ed \in {None, DefaultArgv.eval_datasets} :
        InitRun([DefaultArgv EXCEPT !.eval_datasets = ed],
                ConfigDoc(RequiredKeys, dl, None), DefaultEnv)

\* config files: every subset of the required keys, every SpectrogramAugmentation entry
InitKeys ==
    \E keys \in SUBSET RequiredKeys, aug \in AugmentationEntries,
       ed \in {None, DefaultArgv.eval_datasets}, wk \in {None, Some("key")} :
        InitRun([DefaultArgv EXCEPT !.eval_datasets = ed, !.wandb_key = wk],
                ConfigDoc(keys, DefaultDataLayerSection, aug), DefaultEnv)

\* graphs and callbacks: the evaluation datasets, the checkpoint and load directories
InitDags ==
    \E ed \in {None} \cup {Some(l) : l \in PathLists(MaxEval)},
       cd \in {None, Some("cli_ckpt")},
       fd \in {None, Some("ckpt")},
       ld \in {None, Some(""), Some("load")},
       wk \in {None, Some("key")},
       aug \in {None, Some(Some([time_masks |-> 2]))} :
        InitRun([DefaultArgv EXCEPT !.eval_datasets = ed, !.checkpoint_dir = cd,
                                    !.load_dir = ld, !.wandb_key = wk],
                ConfigDoc(RequiredKeys, DefaultDataLayerSection, aug),
                [DefaultEnv EXCEPT !.checkpoint_dir = fd])

\* learning-rate policy: epochs, batch size, iterations per step, world size, dataset
\* length and the two warmup flags (warmup_ratio in percent)
InitLr ==
    \E ne \in 1..MaxEpochs,
       bs \in {None} \cup {Some(n) : n \in 1..MaxBatch},
       ips \in 1..MaxIter,
       ws \in 1..MaxWorld,
       n \in 0..MaxN,
       wr \in {None, Some(0), Some(50)},
       wst \in {None, Some(0)} :
        InitRun([DefaultArgv EXCEPT !.num_epochs = Some(ne), !.batch_size = bs,
                                    !.iter_per_step = ips, !.warmup_ratio = wr,
                                    !.warmup_steps = wst],
                DefaultConfig, [DefaultEnv EXCEPT !.world_size = ws, !.N = n])

Init == InitArgs \/ InitMerge \/ InitKeys \/ InitDags \/ InitLr

(***************************************************************************)
(* parse_args (lines 31-78).                                               *)
(***************************************************************************)
\* The namespace argparse builds from the command line: flags that were not supplied
\* take their defaults.
Namespace(a) ==
    [num_epochs |-> Val(a.num_epochs),
     max_steps |-> a.max_steps,
     model_config |-> Val(a.model_config),
     wandb_key |-> a.wandb_key,
     checkpoint_dir |-> a.checkpoint_dir,
     load_dir |-> a.load_dir,
     warmup_ratio |-> a.warmup_ratio,
     warmup_steps |-> IF a.warmup_steps = None THEN Some(DefaultWarmupSteps) ELSE a.warmup_steps,
     batch_size |-> IF a.batch_size = None THEN DefaultBatchSize ELSE Val(a.batch_size),
     iter_per_step |-> a.iter_per_step,
     train_dataset |-> a.train_dataset,
     eval_datasets |-> a.eval_datasets,
     num_gpus |-> None]

\* A faulty parse_args, for comparison: the check of lines 76-77 is left out.
ParseArgsNoMaxStepsCheck(a) ==
    IF a.num_epochs = None \/ a.model_config = None
    THEN [exc |-> Some("SystemExit"), ns |-> None]
    ELSE [exc |-> None, ns |-> Namespace(a)]

\* parser.parse_args() exits (SystemExit) when a required flag is missing; then the
\* max_steps check of lines 76-77.  The result: the exception raised, or the namespace.
ParseArgs(a) ==
    IF a.num_epochs = None \/ a.model_config = None
    THEN [exc |-> Some("SystemExit"), ns |-> None]
    ELSE IF Namespace(a).max_steps # None
         THEN [exc |-> Some("ValueError"), ns |-> None]
         ELSE [exc |-> None, ns |-> Namespace(a)]

(***************************************************************************)
(* main (lines 236-290), up to the call of create_all_dags.                *)
(***************************************************************************)
Raise(exc) ==
    /\ raised' = Some(exc)
    /\ pc' = "raised"

\* A faulty main, for comparison: the max_steps check runs only after the
\* experiment-tracking login.
StepParseArgsCheckAfterLogin ==
    /\ pc = "parse_args"
    /\ LET r == ParseArgs(argv)
       IN IF r.exc # None
          THEN /\ Raise(Val(r.exc))
               /\ trace' = IF r.exc = Some("ValueError") /\ TruthyStr(argv.wandb_key)
                            THEN Append(trace, "wandb_login") ELSE trace
               /\ UNCHANGED args
          ELSE args' = r.ns /\ pc' = "wandb_login" /\ UNCHANGED <<raised, trace>>
    /\ UNCHANGED <<argv, config_file, env, neural_factory, quartz_params, heap,
                   dl_params, modules, data_layers_eval, steps_per_epoch, dags, loop_i,
                   callbacks, returned, lr_policy, train_calls>>

\* line 237
StepParseArgs ==
    /\ pc = "parse_args"
    /\ LET r == ParseArgs(argv)
       IN IF r.exc # None
          THEN Raise(Val(r.exc)) /\ UNCHANGED args
          ELSE args' = r.ns /\ pc' = "wandb_login" /\ UNCHANGED raised
    /\ UNCHANGED <<argv, config_file, env, trace, neural_factory, quartz_params, heap,
                   dl_params, modules, data_layers_eval, steps_per_epoch, dags, loop_i, callbacks,
                   returned, lr_policy, train_calls>>

\* A faulty test, for comparison: `is not None` in place of truthiness.
WandbLoginIssuedIfNotNone(ns) == ns.wandb_key # None

\* lines 241-242: whether the login command is issued
WandbLoginIssued(ns) == TruthyStr(ns.wandb_key)

StepWandbLogin ==
    /\ pc = "wandb_login"
    /\ trace' = IF WandbLoginIssued(args) THEN Append(trace, "wandb_login") ELSE trace
    /\ pc' = "factory"
    /\ UNCHANGED <<argv, config_file, env, raised, args, neural_factory, quartz_params, heap,
                   dl_params, modules, data_layers_eval, steps_per_epoch, dags, loop_i, callbacks,
                   returned, lr_policy, train_calls>>

\* A faulty main, for comparison: line 257 is left out.
ArgsAfterFactoryKeepsDir(ns, factory) ==
    [ns EXCEPT !.num_gpus = Some(factory.world_size)]

\* lines 256-257: the namespace after the factory is built
ArgsAfterFactory(ns, factory) ==
    [ns EXCEPT !.num_gpus = Some(factory.world_size),
               !.checkpoint_dir = factory.checkpoint_dir]

\* lines 245-257: the framework builds the factory, or aborts
StepFactory ==
    /\ pc = "factory"
    /\ \E ok \in BOOLEAN :
        IF ok
        THEN LET f == [world_size |-> env.world_size, checkpoint_dir |-> env.checkpoint_dir]
             IN /\ neural_factory' = f
                /\ args' = ArgsAfterFactory(args, f)
                /\ trace' = Append(trace, "NeuralModuleFactory")
                /\ pc' = "load_config"
                /\ UNCHANGED raised
        ELSE Raise("FrameworkError") /\ UNCHANGED <<neural_factory, args, trace>>
    /\ UNCHANGED <<argv, config_file, env, quartz_params, heap,
                   dl_params, modules, data_layers_eval, steps_per_epoch, dags, loop_i, callbacks,
                   returned, lr_policy, train_calls>>

(***************************************************************************)
(* create_all_dags (lines 80-233): config loading and the data layers.     *)
(***************************************************************************)
\* the object quartz_params["AudioToTextDataLayer"]
ConfigSectionRef == "quartz_params.AudioToTextDataLayer"

\* lines 85-87: yaml.load builds the top-level dict; the data-layer section is a
\* mutable object of its own, held by reference
LoadedParams(doc) ==
    [k \in DOMAIN doc |-> IF k = "AudioToTextDataLayer" THEN ConfigSectionRef ELSE doc[k]]

LoadedHeap(doc) ==
    IF HasKey(doc, "AudioToTextDataLayer")
    THEN ConfigSectionRef :> doc["AudioToTextDataLayer"]
    ELSE <<>>

\* lines 85-90: load the file, then read labels and sample_rate
StepLoadConfig ==
    /\ pc = "load_config"
    /\ quartz_params' = Some(LoadedParams(config_file))
    /\ heap' = LoadedHeap(config_file)
    /\ trace' = Append(trace, "read_config")
    /\ IF ~HasKey(config_file, "labels") \/ ~HasKey(config_file, "sample_rate")
       THEN Raise("KeyError")
       ELSE pc' = "merge_train" /\ UNCHANGED raised
    /\ UNCHANGED <<argv, config_file, env, args, neural_factory, dl_params, modules,
                   data_layers_eval, steps_per_epoch, dags, loop_i, callbacks, returned,
                   lr_policy, train_calls>>

\* copy.deepcopy(obj): the object the result is; `fresh` is a new object
DeepCopy(src, fresh) == fresh

\* A lenient merge, for comparison: a missing nested section counts as empty
\* (dict.get(section, {})) and a missing key is not deleted (dict.pop(key, None)).
MergeDataLayerParamsLenient(h, qp, section, fresh) ==
    IF ~HasKey(qp, "AudioToTextDataLayer")
    THEN [exc |-> Some("KeyError"), heap |-> h, ref |-> None]
    ELSE LET src == qp["AudioToTextDataLayer"]
             r == DeepCopy(src, fresh)
             h1 == (r :> h[src]) @@ h
             over == IF HasKey(h1[src], section) THEN h1[src][section] ELSE <<>>
             merged == DictUpdate(h1[r], over)
         IN [exc |-> None,
             heap |-> [h1 EXCEPT ![r] = [k \in DOMAIN merged \ {"train", "eval"} |-> merged[k]]],
             ref |-> Some(r)]

\* lines 97-100 (section "train", result in `fresh`) and lines 119-122 (section "eval"):
\* copy the data-layer section, overlay the nested section, delete the two nested keys.
\* Each dict access raises KeyError when the key is missing; the heap keeps what the
\* statements before the failing one did.
MergeDataLayerParams(h, qp, section, fresh) ==
    IF ~HasKey(qp, "AudioToTextDataLayer")
    THEN [exc |-> Some("KeyError"), heap |-> h, ref |-> None]
    ELSE LET src == qp["AudioToTextDataLayer"]
             r == DeepCopy(src, fresh)
             h1 == (r :> h[src]) @@ h
         IN IF ~HasKey(h1[src], section)
            THEN [exc |-> Some("KeyError"), heap |-> h1, ref |-> Some(r)]
            ELSE LET h2 == [h1 EXCEPT ![r] = DictUpdate(h1[r], h1[src][section])]
                 IN IF ~HasKey(h2[r], "train")
                    THEN [exc |-> Some("KeyError"), heap |-> h2, ref |-> Some(r)]
                    ELSE LET h3 == [h2 EXCEPT ![r] = DictDel(h2[r], "train")]
                         IN IF ~HasKey(h3[r], "eval")
                            THEN [exc |-> Some("KeyError"), heap |-> h3, ref |-> Some(r)]
                            ELSE [exc |-> None,
                                  heap |-> [h3 EXCEPT ![r] = DictDel(h3[r], "eval")],
                                  ref |-> Some(r)]

\* lines 97-100
StepMergeTrain ==
    /\ pc = "merge_train"
    /\ LET m == MergeDataLayerParams(heap, Val(quartz_params), "train", "train_dl_params")
       IN /\ heap' = m.heap
          /\ dl_params' = [dl_params EXCEPT !.train = m.ref]
          /\ IF m.exc # None
             THEN Raise(Val(m.exc))
             ELSE pc' = "train_data_layer" /\ UNCHANGED raised
    /\ UNCHANGED <<argv, config_file, env, trace, args, neural_factory, quartz_params,
                   modules, data_layers_eval, steps_per_epoch, dags, loop_i, callbacks,
                   returned, lr_policy, train_calls>>

\* lines 103-110 and 127-134: an AudioToTextDataLayer; `params` are the keyword
\* arguments **train_dl_params / **eval_dl_params
DataLayer(manifest, batch_size, params) ==
    [manifest_filepath |-> manifest, batch_size |-> batch_size, params |-> params]

\* A faulty line 113, for comparison: the number of GPUs is left out of the divisor.
StepsPerEpochSingleGpu(N, ns) ==
    IntDiv(N, ns.batch_size * ns.iter_per_step)

\* line 113
StepsPerEpoch(N, ns) ==
    IntDiv(N, ns.batch_size * ns.iter_per_step * Val(ns.num_gpus))

\* lines 103-113: the training data layer (the framework reads the manifest, or aborts),
\* its length and the steps per epoch
StepTrainDataLayer ==
    /\ pc = "train_data_layer"
    /\ \E ok \in BOOLEAN :
        IF ok
        THEN /\ modules' = ("data_layer_train" :>
                              DataLayer(args.train_dataset, args.batch_size,
                                        heap[Val(dl_params.train)])) @@ modules
             /\ steps_per_epoch' = Some(StepsPerEpoch(env.N, args))
             /\ pc' = "merge_eval"
             /\ UNCHANGED raised
        ELSE Raise("FrameworkError") /\ UNCHANGED <<modules, steps_per_epoch>>
    /\ UNCHANGED <<argv, config_file, env, trace, args, neural_factory, quartz_params, heap,
                   dl_params, data_layers_eval, dags, loop_i, callbacks, returned,
                   lr_policy, train_calls>>

\* lines 119-122
StepMergeEval ==
    /\ pc = "merge_eval"
    /\ LET m == MergeDataLayerParams(heap, Val(quartz_params), "eval", "eval_dl_params")
       IN /\ heap' = m.heap
          /\ dl_params' = [dl_params EXCEPT !.eval = m.ref]
          /\ IF m.exc # None
             THEN Raise(Val(m.exc))
             ELSE pc' = "eval_data_layers" /\ UNCHANGED raised
    /\ UNCHANGED <<argv, config_file, env, trace, args, neural_factory, quartz_params,
                   modules, data_layers_eval, steps_per_epoch, dags, loop_i, callbacks,
                   returned, lr_policy, train_calls>>

\* lines 124-138: one data layer per evaluation dataset, in order; none when
\* args.eval_datasets is None or empty
EvalDataLayers(ns, params) ==
    IF TruthyList(ns.eval_datasets)
    THEN [i \in 1..Len(Val(ns.eval_datasets)) |->
            DataLayer(Val(ns.eval_datasets)[i], EvalBatchSize, params)]
    ELSE <<>>

StepEvalDataLayers ==
    /\ pc = "eval_data_layers"
    /\ data_layers_eval' = Some(EvalDataLayers(args, heap[Val(dl_params.eval)]))
    /\ pc' = "shared_modules"
    /\ UNCHANGED <<argv, config_file, env, raised, trace, args, neural_factory,
                   quartz_params, heap, dl_params, modules, steps_per_epoch, dags, loop_i,
                   callbacks, returned, lr_policy, train_calls>>

(***************************************************************************)
(* create_all_dags: the shared modules and the graphs.                     *)
(***************************************************************************)
\* lines 142-162: the modules every graph shares, in construction order: the
\* exception of the first missing key, and the modules built before it
SharedModules(qp) ==
    IF ~HasKey(qp, "AudioToMelSpectrogramPreprocessor")
    THEN [exc |-> Some("KeyError"), built |-> <<>>]
    ELSE LET pre == "data_preprocessor" :>
                        [sample_rate |-> qp["sample_rate"],
                         params |-> qp["AudioToMelSpectrogramPreprocessor"]]
         IN IF ~HasKey(qp["AudioToMelSpectrogramPreprocessor"], "features")
               \/ ~HasKey(qp, "JasperEncoder")
            THEN [exc |-> Some("KeyError"), built |-> pre]
            ELSE LET jasper == qp["JasperEncoder"]["jasper"]
                 IN [exc |-> None,
                     built |-> pre @@
                        ("encoder" :>
                            [feat_in |-> qp["AudioToMelSpectrogramPreprocessor"]["features"],
                             params |-> qp["JasperEncoder"]]) @@
                        ("decoder" :> [feat_in |-> jasper[Len(jasper)]["filters"],
                                       num_classes |-> Len(qp["labels"])]) @@
                        ("ctc_loss" :> [num_classes |-> Len(qp["labels"])]) @@
                        ("greedy_decoder" :> [kind |-> "GreedyCTCDecoder"])]

StepSharedModules ==
    /\ pc = "shared_modules"
    /\ LET m == SharedModules(Val(quartz_params))
       IN /\ modules' = m.built @@ modules
          /\ IF m.exc # None
             THEN Raise(Val(m.exc))
             ELSE pc' = "augmentation" /\ UNCHANGED raised
    /\ UNCHANGED <<argv, config_file, env, trace, args, neural_factory, quartz_params, heap,
                   dl_params, data_layers_eval, steps_per_epoch, dags, loop_i, callbacks,
                   returned, lr_policy, train_calls>>

\* line 167: quartz_params.get('SpectrogramAugmentation', None)
SpectrAugmentConfig(qp) ==
    IF HasKey(qp, "SpectrogramAugmentation") THEN qp["SpectrogramAugmentation"] ELSE None

\* A faulty test, for comparison: `is not None` in place of truthiness.
UseAugmentationIfNotNone(qp) == SpectrAugmentConfig(qp) # None

\* lines 168 and 175: `if spectr_augment_config:`
UseAugmentation(qp) == TruthyDict(SpectrAugmentConfig(qp))

\* lines 167-169
StepAugmentation ==
    /\ pc = "augmentation"
    /\ modules' = IF UseAugmentation(Val(quartz_params))
                  THEN ("data_spectr_augmentation" :>
                            [params |-> Val(SpectrAugmentConfig(Val(quartz_params)))]) @@ modules
                  ELSE modules
    /\ pc' = "train_dag"
    /\ UNCHANGED <<argv, config_file, env, raised, trace, args, neural_factory,
                   quartz_params, heap, dl_params, data_layers_eval, steps_per_epoch, dags,
                   loop_i, callbacks, returned, lr_policy, train_calls>>

\* A node of a graph is a module instance: a shared module (i = 0), the training data
\* layer (i = 0) or the i-th evaluation data layer.  An edge is a tensor passed from one
\* module's output to the named input port of another.
Node(name, idx) == [m |-> name, i |-> idx]
Edge(src, dst, port) == [src |-> src, dst |-> dst, port |-> port]
\* an output tensor: the module that produced it, in which graph, and which output
Tensor(node, dag, out) == [producer |-> node, dag |-> dag, out |-> out]

\* A faulty wiring, for comparison: every evaluation graph gets module instances of
\* its own.
EvalModulePerGraph(name, i) == Node(name, i)

\* the instance each module call of an evaluation graph goes to (lines 214-218)
EvalModule(name, i) == Node(name, 0)

\* lines 172-183: the train graph; `aug` is whether the augmentation module is used
TrainDagEdges(aug) ==
    LET dl == Node("data_layer_train", 0)
        pre == Node("data_preprocessor", 0)
        spec == Node("data_spectr_augmentation", 0)
        enc == Node("encoder", 0)
        dec == Node("decoder", 0)
        loss == Node("ctc_loss", 0)
    IN {Edge(dl, pre, "input_signal"), Edge(dl, pre, "length"),
        Edge(pre, enc, "length"),
        Edge(enc, dec, "encoder_output"),
        Edge(dec, Node("greedy_decoder", 0), "log_probs"),
        Edge(dec, loss, "log_probs"), Edge(dl, loss, "targets"),
        Edge(enc, loss, "input_length"), Edge(dl, loss, "target_length")}
       \cup (IF aug
             THEN {Edge(pre, spec, "input_spec"), Edge(spec, enc, "audio_signal")}
             ELSE {Edge(pre, enc, "audio_signal")})

StepTrainDag ==
    /\ pc = "train_dag"
    /\ dags' = (0 :> TrainDagEdges(UseAugmentation(Val(quartz_params)))) @@ dags
    /\ pc' = "train_callbacks"
    /\ UNCHANGED <<argv, config_file, env, raised, trace, args, neural_factory,
                   quartz_params, heap, dl_params, modules, data_layers_eval,
                   steps_per_epoch, loop_i, callbacks, returned, lr_policy, train_calls>>

\* lines 213-220: the i-th evaluation graph
EvalDagEdges(i) ==
    LET dl == Node("data_layer_eval", i)
        pre == EvalModule("data_preprocessor", i)
        enc == EvalModule("encoder", i)
        dec == EvalModule("decoder", i)
        loss == EvalModule("ctc_loss", i)
    IN {Edge(dl, pre, "input_signal"), Edge(dl, pre, "length"),
        Edge(pre, enc, "audio_signal"), Edge(pre, enc, "length"),
        Edge(enc, dec, "encoder_output"),
        Edge(dec, EvalModule("greedy_decoder", i), "log_probs"),
        Edge(dec, loss, "log_probs"), Edge(dl, loss, "targets"),
        Edge(enc, loss, "input_length"), Edge(dl, loss, "target_length")}

(***************************************************************************)
(* create_all_dags: the callbacks.                                         *)
(***************************************************************************)
Callback(kind, tensors, tag, folder, load_from_folder) ==
    [kind |-> kind, tensors |-> tensors, tag |-> tag, folder |-> folder,
     load_from_folder |-> load_from_folder]

\* loss_t of line 181
TrainLoss == Tensor(Node("ctc_loss", 0), 0, "loss")

\* line 186
TrainTensors ==
    <<TrainLoss,
      Tensor(Node("greedy_decoder", 0), 0, "predictions"),
      Tensor(Node("data_layer_train", 0), 0, "transcript"),
      Tensor(Node("data_layer_train", 0), 0, "transcript_len")>>

\* line 197
UseCheckpoint(ns) == TruthyStr(ns.checkpoint_dir) \/ TruthyStr(ns.load_dir)

\* lines 186-209: the callback list before the evaluation loop
TrainCallbacks(ns) ==
    <<Callback("SimpleLossLoggerCallback", TrainTensors, None, None, None)>>
    \o (IF UseCheckpoint(ns)
        THEN <<Callback("CheckpointCallback", <<>>, None, ns.checkpoint_dir, ns.load_dir)>>
        ELSE <<>>)
    \o <<Callback("WandbCallback", <<TrainLoss>>, None, None, None)>>

StepTrainCallbacks ==
    /\ pc = "train_callbacks"
    /\ callbacks' = Some(TrainCallbacks(args))
    /\ loop_i' = 0
    /\ pc' = "eval_dags"
    /\ UNCHANGED <<argv, config_file, env, raised, trace, args, neural_factory,
                   quartz_params, heap, dl_params, modules, data_layers_eval,
                   steps_per_epoch, dags, returned, lr_policy, train_calls>>

\* lines 221-230: the evaluator callback of the i-th evaluation graph
EvalCallback(ns, i) ==
    Callback("EvaluatorCallback",
             <<Tensor(EvalModule("ctc_loss", i), i, "loss"),
               Tensor(EvalModule("greedy_decoder", i), i, "predictions"),
               Tensor(Node("data_layer_eval", i), i, "transcript"),
               Tensor(Node("data_layer_eval", i), i, "transcript_len")>>,
             Some(TagName(Val(ns.eval_datasets)[i])), None, None)

\* lines 212-231: one iteration of the loop over data_layers_eval
StepEvalDag ==
    /\ pc = "eval_dags"
    /\ loop_i < Len(Val(data_layers_eval))
    /\ LET i == loop_i + 1
       IN /\ dags' = (i :> EvalDagEdges(i)) @@ dags
          /\ callbacks' = Some(Append(Val(callbacks), EvalCallback(args, i)))
          /\ loop_i' = i
    /\ UNCHANGED <<argv, config_file, env, pc, raised, trace, args, neural_factory,
                   quartz_params, heap, dl_params, modules, data_layers_eval,
                   steps_per_epoch, returned, lr_policy, train_calls>>

\* line 233, and the assignment of line 263
StepReturn ==
    /\ pc = "eval_dags"
    /\ loop_i = Len(Val(data_layers_eval))
    /\ returned' = Some([train_loss |-> TrainLoss, callbacks |-> Val(callbacks),
                         steps_per_epoch |-> Val(steps_per_epoch)])
    /\ trace' = Append(trace, "create_all_dags")
    /\ pc' = "lr_policy"
    /\ UNCHANGED <<argv, config_file, env, raised, args, neural_factory, quartz_params,
                   heap, dl_params, modules, data_layers_eval, steps_per_epoch, dags,
                   loop_i, callbacks, lr_policy, train_calls>>

(***************************************************************************)
(* main: the learning-rate policy and the training loop.                   *)
(***************************************************************************)
\* lines 267-273: the policy object
LrPolicy(ns, spe) ==
    IF ns.warmup_ratio # None
    THEN [total_steps |-> ns.num_epochs * spe, warmup_ratio |-> ns.warmup_ratio,
          warmup_steps |-> None]
    ELSE [total_steps |-> ns.num_epochs * spe, warmup_ratio |-> None,
          warmup_steps |-> ns.warmup_steps]

\* lines 270 and 274: the namespace after the policy is built
ArgsAfterLrPolicy(ns) ==
    IF ns.warmup_ratio # None
    THEN [ns EXCEPT !.warmup_steps = None]
    ELSE [ns EXCEPT !.warmup_ratio = None]

\* lines 266-274
StepLrPolicy ==
    /\ pc = "lr_policy"
    /\ lr_policy' = Some(LrPolicy(args, Val(returned).steps_per_epoch))
    /\ args' = ArgsAfterLrPolicy(args)
    /\ trace' = Append(trace, "lr_policy")
    /\ pc' = "train"
    /\ UNCHANGED <<argv, config_file, env, raised, neural_factory, quartz_params, heap,
                   dl_params, modules, data_layers_eval, steps_per_epoch, dags, loop_i,
                   callbacks, returned, train_calls>>

\* lines 275-290: the arguments of neural_factory.train
TrainCall(ns, ret, policy) ==
    [tensors_to_optimize |-> <<ret.train_loss>>,
     callbacks |-> ret.callbacks,
     lr_policy |-> policy,
     num_epochs |-> ns.num_epochs,
     batches_per_step |-> ns.iter_per_step]

\* lines 275-290: the framework trains to completion, or aborts
StepTrain ==
    /\ pc = "train"
    /\ train_calls' = Append(train_calls, TrainCall(args, Val(returned), Val(lr_policy)))
    /\ trace' = Append(trace, "train")
    /\ \E ok \in BOOLEAN :
        IF ok THEN pc' = "done" /\ UNCHANGED raised ELSE Raise("FrameworkError")
    /\ UNCHANGED <<argv, config_file, env, args, neural_factory, quartz_params, heap,
                   dl_params, modules, data_layers_eval, steps_per_epoch, dags, loop_i,
                   callbacks, returned, lr_policy>>

Next ==
    \/ StepParseArgs
    \/ StepWandbLogin
    \/ StepFactory
    \/ StepLoadConfig
    \/ StepMergeTrain
    \/ StepTrainDataLayer
    \/ StepMergeEval
    \/ StepEvalDataLayers
    \/ StepSharedModules
    \/ StepAugmentation
    \/ StepTrainDag
    \/ StepTrainCallbacks
    \/ StepEvalDag
    \/ StepReturn
    \/ StepLrPolicy
    \/ StepTrain

Spec == Init /\ [][Next]_vars

(***************************************************************************)
(* Properties of parse_args.                                               *)
(***************************************************************************)
Supplied(flag) == argv[flag] # None

\* how the call of parse_args ended: the namespace exists exactly when it returned
ParseReturned == pc # "parse_args" /\ args # None
ParseRaised(exc) == pc = "raised" /\ args = None /\ raised = Some(exc)
ParseRejected == pc = "raised" /\ args = None

\* C1, as stated: parse_args raises ValueError whenever both --num_epochs and
\* --max_steps are supplied, and returns the namespace whenever --num_epochs is
\* supplied and --max_steps is not.
C1_AsStated ==
    pc # "parse_args" =>
        /\ (Supplied("num_epochs") /\ Supplied("max_steps") => ParseRaised("ValueError"))
        /\ (Supplied("num_epochs") /\ ~Supplied("max_steps") => ParseReturned)

\* C1, amended: on a command line that supplies the required --model_config,
\* parse_args raises ValueError whenever both --num_epochs and --max_steps are
\* supplied, and returns the namespace whenever --num_epochs is supplied and
\* --max_steps is not.
C1_ParseArgsEpochsOrSteps ==
    pc # "parse_args" =>
        /\ (Supplied("model_config") /\ Supplied("num_epochs") /\ Supplied("max_steps")
                => ParseRaised("ValueError"))
        /\ (Supplied("model_config") /\ Supplied("num_epochs") /\ ~Supplied("max_steps")
                => ParseReturned /\ args.num_epochs = Val(argv.num_epochs))

C1_Witness ==
    /\ Supplied("model_config") /\ Supplied("num_epochs") /\ Supplied("max_steps")
    /\ ParseRaised("ValueError")

\* C2: whenever parse_args has raised the epoch/step-count error, no later step of main
\* has happened: no login command, no factory, no config read, no module, graph or
\* callback built, no call of train; and the run goes no further.
C2_ConfigErrorAbortsImmediately ==
    raised = Some("ValueError") =>
        /\ trace = <<>>
        /\ neural_factory = None
        /\ quartz_params = None /\ heap = <<>>
        /\ modules = <<>> /\ data_layers_eval = None /\ dags = <<>>
        /\ callbacks = None /\ returned = None /\ lr_policy = None
        /\ train_calls = <<>>
        /\ ~ENABLED Next

C2_Witness ==
    /\ raised = Some("ValueError")
    /\ TruthyStr(argv.wandb_key)
    /\ Supplied("num_epochs") /\ Supplied("max_steps")

\* C3: a command line that supplies exactly one of --num_epochs and --max_steps is
\* accepted by parse_args, and only one that supplies both is rejected (stated for
\* command lines that supply --model_config and at least one of the two flags).
C3_EitherEpochsOrStepsAccepted ==
    pc # "parse_args" /\ Supplied("model_config")
        /\ (Supplied("num_epochs") \/ Supplied("max_steps"))
    => (ParseRejected <=> (Supplied("num_epochs") /\ Supplied("max_steps")))

(***************************************************************************)
(* Properties of the config merging of create_all_dags.                    *)
(***************************************************************************)
\* the data-layer section of the config file, and whether a nested section is there
Section == config_file["AudioToTextDataLayer"]

\* the overlay of the nested section `name` onto the shared parameters, key by key
Overlaid(params, name) ==
    /\ DOMAIN params = (DOMAIN Section \cup DOMAIN Section[name]) \ {"train", "eval"}
    /\ \A k \in DOMAIN params :
        params[k] = IF k \in DOMAIN Section[name] THEN Section[name][k] ELSE Section[k]

\* the training data layer exists, so lines 97-100 have run; the list of evaluation
\* data layers exists, so lines 119-122 have run
TrainMergeDone == "data_layer_train" \in DOMAIN modules
EvalMergeDone == data_layers_eval # None

\* C4: the training parameters are the shared data-layer parameters overlaid with the
\* nested train section, the evaluation parameters the shared ones overlaid with the
\* nested eval section (never a train override); neither holds the keys 'train' or
\* 'eval'; these are the keyword arguments the data layers get; and the loaded
\* configuration is what the file holds, before and after both merges.
C4_ConfigMergeOverlays ==
    /\ TrainMergeDone =>
         /\ Overlaid(heap[Val(dl_params.train)], "train")
         /\ modules["data_layer_train"].params = heap[Val(dl_params.train)]
    /\ EvalMergeDone =>
         /\ Overlaid(heap[Val(dl_params.eval)], "eval")
         /\ \A i \in 1..Len(Val(data_layers_eval)) :
                Val(data_layers_eval)[i].params = heap[Val(dl_params.eval)]
    /\ quartz_params # None =>
         /\ DOMAIN Val(quartz_params) = DOMAIN config_file
         /\ HasKey(config_file, "AudioToTextDataLayer") =>
                heap[Val(quartz_params)["AudioToTextDataLayer"]] = Section

\* both merges done on a section where train overrides a shared key that eval leaves
\* alone, and eval adds a key
C4_Witness ==
    /\ TrainMergeDone /\ EvalMergeDone
    /\ {"shuffle", "max_duration"} \subseteq DOMAIN Section
    /\ "shuffle" \in DOMAIN Section["train"] /\ "shuffle" \notin DOMAIN Section["eval"]
    /\ "max_duration" \in DOMAIN Section["eval"]
    /\ heap[Val(dl_params.train)]["shuffle"] = 1
    /\ heap[Val(dl_params.eval)]["shuffle"] = 0
    /\ heap[Val(dl_params.eval)]["max_duration"] = 2
    /\ Len(Val(data_layers_eval)) = 1

(***************************************************************************)
(* Properties of the required config keys.                                 *)
(***************************************************************************)
\* a required key of the config file is missing: a top-level one, or a nested
\* train / eval section of the data-layer section
MissingRequiredKey ==
    \/ RequiredKeys \ DOMAIN config_file # {}
    \/ /\ HasKey(config_file, "AudioToTextDataLayer")
       /\ {"train", "eval"} \ DOMAIN Section # {}

\* C5: with a required key missing, create_all_dags never returns: main gets no
\* callbacks, train is never called, the run never reaches the learning-rate policy;
\* the run can only end with an exception raised, and once one is raised nothing
\* further happens (no retry, no recovery).
C5_MissingKeyPropagates ==
    /\ MissingRequiredKey /\ args # None =>
         /\ returned = None
         /\ train_calls = <<>>
         /\ pc \notin {"lr_policy", "train", "done"}
         /\ (~ENABLED Next => pc = "raised" /\ raised \in {Some("KeyError"), Some("FrameworkError")})
         /\ (raised = Some("KeyError") => callbacks = None)
    /\ raised # None => ~ENABLED Next

\* only the nested eval section is missing and no evaluation dataset was passed
C5_Witness ==
    /\ RequiredKeys \subseteq DOMAIN config_file
    /\ "train" \in DOMAIN Section /\ "eval" \notin DOMAIN Section
    /\ args # None /\ ~TruthyList(args.eval_datasets)
    /\ raised = Some("KeyError")

(***************************************************************************)
(* Properties of the graphs and the callbacks.                             *)
(***************************************************************************)
\* the evaluation datasets of the command line, as a list
EvalDatasets == IF argv.eval_datasets = None THEN <<>> ELSE Val(argv.eval_datasets)
NumEval == Len(EvalDatasets)

\* the module instances a graph touches
NodesOf(g) == {e.src : e \in g} \cup {e.dst : e \in g}

\* graph g passes a tensor from module a to module b
Feeds(g, a, b) == \E e \in g : e.src = a /\ e.dst = b

\* the file name of each evaluation dataset up to its first dot, written out
ExpectedTag(path) ==
    CASE path = <<"a", ".", "j">> -> <<"a">>
      [] path = <<"d", ".", "x", "/", "b">> -> <<"b">>
      [] path = <<"d", "/", "c", ".", "t", ".", "j">> -> <<"c">>

\* the evaluator callbacks of a callback list, in order
Evaluators(cbs) == SelectSeq(cbs, LAMBDA c : c.kind = "EvaluatorCallback")

\* C6: when create_all_dags returns there is exactly one evaluation data layer, one
\* evaluation graph and one evaluator callback per evaluation dataset, in the order of
\* the command line; graph i runs from its own data layer through preprocessor,
\* encoder, decoder to the loss, all of them (and the greedy decoder) the instances
\* the train graph uses; and the i-th evaluator callback watches graph i and carries
\* the tag of the i-th dataset's file name.
C6_OneEvalGraphPerDataset ==
    returned # None =>
        /\ Len(Val(data_layers_eval)) = NumEval
        /\ DOMAIN dags = 0..NumEval
        /\ Len(Evaluators(Val(returned).callbacks)) = NumEval
        /\ \A i \in 1..NumEval :
            LET g == dags[i]
                dl == Node("data_layer_eval", i)
                shared == [n \in {"data_preprocessor", "encoder", "decoder", "ctc_loss",
                                  "greedy_decoder"} |-> Node(n, 0)]
                cb == Evaluators(Val(returned).callbacks)[i]
            IN /\ Val(data_layers_eval)[i].manifest_filepath = EvalDatasets[i]
               /\ Feeds(g, dl, shared["data_preprocessor"])
               /\ Feeds(g, shared["data_preprocessor"], shared["encoder"])
               /\ Feeds(g, shared["encoder"], shared["decoder"])
               /\ Feeds(g, shared["decoder"], shared["ctc_loss"])
               /\ Feeds(g, shared["decoder"], shared["greedy_decoder"])
               /\ NodesOf(g) = {dl} \cup {shared[n] : n \in DOMAIN shared}
               /\ NodesOf(g) \ {dl} \subseteq NodesOf(dags[0])
               /\ dl \notin NodesOf(dags[0])
               /\ \A j \in 1..NumEval : j # i => dl \notin NodesOf(dags[j])
               /\ \A t \in 1..Len(cb.tensors) :
                    cb.tensors[t].dag = i /\ cb.tensors[t].producer \in NodesOf(g)
               /\ cb.tensors[1].producer = shared["ctc_loss"]
               /\ cb.tag = Some(ExpectedTag(EvalDatasets[i]))

C6_Witness ==
    /\ returned # None
    /\ NumEval = 2
    /\ EvalDatasets[1] = <<"d", ".", "x", "/", "b">>
    /\ EvalDatasets[2] = <<"a", ".", "j">>
    /\ Evaluators(Val(returned).callbacks)[1].tag = Some(<<"b">>)

\* the SpectrogramAugmentation entry of the config file is present and not empty
AugmentationConfigured ==
    /\ HasKey(config_file, "SpectrogramAugmentation")
    /\ config_file["SpectrogramAugmentation"] # None
    /\ DOMAIN Val(config_file["SpectrogramAugmentation"]) # {}

\* C7: once the train graph is built: without a (non-empty) SpectrogramAugmentation
\* entry no augmentation module exists and the preprocessor output goes straight to
\* the encoder; with one, the module exists and sits between preprocessor and encoder;
\* no evaluation graph ever holds the augmentation module; and a missing entry never
\* raises: a KeyError is always due to a missing required key.
C7_AugmentationOptionalTrainOnly ==
    LET pre == Node("data_preprocessor", 0)
        spec == Node("data_spectr_augmentation", 0)
        enc == Node("encoder", 0)
    IN /\ 0 \in DOMAIN dags =>
            IF AugmentationConfigured
            THEN /\ "data_spectr_augmentation" \in DOMAIN modules
                 /\ Edge(pre, spec, "input_spec") \in dags[0]
                 /\ Edge(spec, enc, "audio_signal") \in dags[0]
                 /\ Edge(pre, enc, "audio_signal") \notin dags[0]
            ELSE /\ "data_spectr_augmentation" \notin DOMAIN modules
                 /\ Edge(pre, enc, "audio_signal") \in dags[0]
                 /\ spec \notin NodesOf(dags[0])
       /\ \A i \in DOMAIN dags \ {0} : \A e \in dags[i] :
            e.src.m # "data_spectr_augmentation" /\ e.dst.m # "data_spectr_augmentation"
       /\ raised = Some("KeyError") => MissingRequiredKey

\* an empty SpectrogramAugmentation entry, and a run that finished
C7_Witness ==
    /\ HasKey(config_file, "SpectrogramAugmentation")
    /\ ~AugmentationConfigured
    /\ pc = "done"
    /\ NumEval > 0

\* the kinds of the callbacks of a list, in order
Kinds(cbs) == [i \in 1..Len(cbs) |-> cbs[i].kind]

\* checkpoint_dir (as the factory reports it) or load_dir is set, i.e. not None or ""
CheckpointingSet ==
    TruthyStr(neural_factory.checkpoint_dir) \/ TruthyStr(argv.load_dir)

\* C9: the callback list create_all_dags returns is the train loss logger, then the
\* checkpoint callback exactly when the factory's checkpoint_dir or load_dir is set,
\* then the experiment-tracking callback, then the evaluator callbacks in dataset
\* order; its length is 2 + (1 if checkpointing) + the number of eval datasets.
C9_CallbackOrder ==
    returned # None =>
        LET cbs == Val(returned).callbacks
            ck == IF CheckpointingSet THEN 1 ELSE 0
        IN /\ Len(cbs) = 2 + ck + NumEval
           /\ Kinds(cbs) = <<"SimpleLossLoggerCallback">>
                           \o (IF CheckpointingSet THEN <<"CheckpointCallback">> ELSE <<>>)
                           \o <<"WandbCallback">>
                           \o [i \in 1..NumEval |-> "EvaluatorCallback"]
           /\ \A i \in 1..NumEval : cbs[2 + ck + i].tag = Some(ExpectedTag(EvalDatasets[i]))
           /\ CheckpointingSet =>
                /\ cbs[2].folder = neural_factory.checkpoint_dir
                /\ cbs[2].load_from_folder = argv.load_dir

\* the checkpoint directory comes from the factory alone, with two eval datasets
C9_Witness ==
    /\ returned # None
    /\ argv.checkpoint_dir = None /\ ~TruthyStr(argv.load_dir)
    /\ Val(returned).callbacks[2].kind = "CheckpointCallback"
    /\ NumEval = 2
    /\ Len(Val(returned).callbacks) = 5

(***************************************************************************)
(* Properties of main.                                                     *)
(***************************************************************************)
\* C8: a run of main that ends without an exception has called train exactly once, as
\* its last step, after the login command (issued exactly when --wandb_key is a
\* non-empty string, and then first), the factory, the graphs and the learning-rate
\* policy; train got the training loss tensor and the very callback list
\* create_all_dags returned; and no run calls train twice.
C8_TrainCalledOnceLast ==
    /\ Len(train_calls) <= 1
    /\ pc = "done" =>
        /\ raised = None
        /\ trace = (IF argv.wandb_key # None /\ Val(argv.wandb_key) # ""
                    THEN <<"wandb_login">> ELSE <<>>)
                   \o <<"NeuralModuleFactory", "read_config", "create_all_dags",
                        "lr_policy", "train">>
        /\ Len(train_calls) = 1
        /\ train_calls[1].tensors_to_optimize = <<Tensor(Node("ctc_loss", 0), 0, "loss")>>
        /\ train_calls[1].callbacks = Val(returned).callbacks
        /\ train_calls[1].callbacks = Val(callbacks)
        /\ train_calls[1].lr_policy = Val(lr_policy)
        /\ 0 \in DOMAIN dags /\ neural_factory # None
        /\ ~ENABLED Next

\* a finished run with an empty --wandb_key: no login command
C8_Witness ==
    /\ pc = "done"
    /\ argv.wandb_key = Some("")
    /\ trace[1] = "NeuralModuleFactory"

\* q is floor(n / d)
IsFloorOf(q, n, d) == q * d <= n /\ n < (q + 1) * d

\* C10: when train is called exactly one of args.warmup_ratio and args.warmup_steps is
\* not None: a supplied --warmup_ratio (0 included) wins, the policy gets it alone and
\* args.warmup_steps is None; otherwise the policy gets warmup_steps alone (the
\* supplied value or the default) and args.warmup_ratio is None.  Either way
\* total_steps is num_epochs * floor(N / (batch_size * iter_per_step * num_gpus)),
\* which is 0 when N is less than one global batch.
C10_WarmupAndTotalSteps ==
    train_calls # <<>> =>
        LET policy == train_calls[1].lr_policy
            bs == IF argv.batch_size = None THEN 32 ELSE Val(argv.batch_size)
            d == bs * argv.iter_per_step * neural_factory.world_size
            ne == Val(argv.num_epochs)
        IN /\ (args.warmup_ratio = None) # (args.warmup_steps = None)
           /\ IF argv.warmup_ratio # None
              THEN /\ policy.warmup_ratio = argv.warmup_ratio
                   /\ policy.warmup_steps = None
                   /\ args.warmup_steps = None
              ELSE /\ policy.warmup_steps =
                        (IF argv.warmup_steps = None THEN Some(1000) ELSE argv.warmup_steps)
                   /\ policy.warmup_ratio = None
                   /\ args.warmup_ratio = None
           /\ \E q \in 0..env.N : IsFloorOf(q, env.N, d) /\ policy.total_steps = ne * q
           /\ env.N < d => policy.total_steps = 0

\* --warmup_ratio 0 and --warmup_steps both supplied, two GPUs, several steps
C10_Witness ==
    /\ train_calls # <<>>
    /\ argv.warmup_ratio = Some(0) /\ argv.warmup_steps = Some(0)
    /\ neural_factory.world_size = 2
    /\ argv.num_epochs = Some(2)
    /\ train_calls[1].lr_policy.total_steps = 4

====
